---- MODULE Spec2Model ----
(***************************************************************************)
(* Model of the IBM Quantum Experience Python API client                   *)
(* (src/IBMQuantumExperience/IBMQuantumExperience.py): the credential      *)
(* store (_Credentials), the transport client (_Request.get/post/put with  *)
(* its retry loop, 401 token refresh and response validation) and the      *)
(* public operations of IBMQuantumExperience: run_experiment with its      *)
(* polling loop, run_job, backend_status, set_user_group and the           *)
(* operations that make one request after the credentials check.           *)
(***************************************************************************)
EXTENDS Integers, Sequences, FiniteSets, TLC

\* ------------------------------------------------------------------------
\* Bounds
\* ------------------------------------------------------------------------
\* largest value of the `retries` constructor argument that is explored
MaxRetries == 2
\* largest value of the `timeout` argument of run_experiment that is explored
MaxTimeout == 3
\* the per-operation counters opLogins and opAttempts stop counting here
MaxCount == 2

\* default of the `retries` argument of _Request.__init__
DefaultRetries == 5

\* ------------------------------------------------------------------------
\* Values
\* ------------------------------------------------------------------------
\* Python's None (an absent dictionary entry read with .get(key, None))
NoneV == "None"
\* the URL carries no access_token parameter at all
NoParam == "no_access_token"
\* session tokens a login can return ("" is a present but empty token)
Tokens == {"t0", "t1"}
UserIds == {"u0", "u1"}

\* Python truthiness of an optional string
Truthy(x) == x # NoneV /\ x # ""

\* JSON documents of the login endpoint, read by requests.post(...).json():
\* kind "nonjson" makes .json() raise ValueError.
LoginResponses ==
    { [kind |-> "dict", id |-> "t0", userId |-> "u0"],
      [kind |-> "dict", id |-> "t1", userId |-> "u1"],
      [kind |-> "dict", id |-> "", userId |-> "u0"],
      [kind |-> "dict", id |-> NoneV, userId |-> NoneV],
      [kind |-> "nonjson", id |-> NoneV, userId |-> NoneV] }

\* Response bodies.  kind: "nonjson" (text that is not JSON), "regsize"
\* (text that is not JSON and matches _max_qubit_error_re), "scalar" (a JSON
\* number or string), "list", "dict", and "None" for the initial self.result.
\* For a dict: error is the 'error' entry ("absent", "s400" = a dict whose
\* status is 400, "other" = a dict without status 400); status is
\* status.id; ids tells whether 'id' and 'codeId' are present; data tells
\* whether result.data is present; p, valsxyz, additionalData are the
\* entries of result.data ("empty" is a present but falsy value).
Base ==
    [kind |-> "dict", error |-> "absent", status |-> "absent", ids |-> TRUE,
     infoQueue |-> FALSE, data |-> FALSE, p |-> "absent",
     valsxyz |-> "absent", additionalData |-> "absent",
     calibration |-> FALSE, listing |-> FALSE]

NoResult == [Base EXCEPT !.kind = "None", !.ids = FALSE]
NonJson == [Base EXCEPT !.kind = "nonjson", !.ids = FALSE]
RegSizeText == [Base EXCEPT !.kind = "regsize", !.ids = FALSE]
Scalar == [Base EXCEPT !.kind = "scalar", !.ids = FALSE]
JsonList == [Base EXCEPT !.kind = "list", !.ids = FALSE]
\* the list answered by GET /Backends (listing: it holds ListedBackends)
BackendList == [JsonList EXCEPT !.listing = TRUE]
Err400 == [Base EXCEPT !.error = "s400", !.ids = FALSE]
Running == [Base EXCEPT !.status = "RUNNING", !.infoQueue = TRUE]
ErrorSt == [Base EXCEPT !.status = "ERROR", !.infoQueue = TRUE]
DoneNoData == [Base EXCEPT !.status = "DONE"]
DoneFull ==
    [Base EXCEPT !.status = "DONE", !.data = TRUE, !.p = "p1",
                 !.valsxyz = "v1", !.additionalData = "a1",
                 !.calibration = TRUE]
DoneNoCalib == [Base EXCEPT !.status = "DONE", !.data = TRUE, !.p = "p1"]
EmptyData == [Base EXCEPT !.status = "RUNNING", !.data = TRUE, !.p = "empty"]
\* DONE with a result.data whose p and valsxyz are present but falsy
DoneFalsy ==
    [Base EXCEPT !.status = "DONE", !.data = TRUE, !.p = "empty",
                 !.valsxyz = "empty"]

Bodies ==
    { NonJson, RegSizeText, Scalar, JsonList, BackendList, Err400, Running,
      ErrorSt, DoneNoData, DoneFull, DoneNoCalib, EmptyData, DoneFalsy }

\* Responses of the server: every body with status 200, and texts and JSON
\* documents with status 401 and 503 (503 stands for any status other than
\* 200 and 401)
Responses ==
    [status : {200}, body : Bodies]
    \cup [status : {401}, body : {NonJson, RegSizeText}]
    \cup [status : {503}, body : {NonJson, RegSizeText, Scalar, DoneFull}]

\* class of a response, as the claims about the transport client tell
\* responses apart: "regsize" is a non-200 response whose text matches the
\* register-size message, "s401" any other 401, "non2xx" any other non-200
Class(r) ==
    IF r.status # 200 /\ r.body.kind = "regsize" THEN "regsize"
    ELSE IF r.status = 401 THEN "s401"
    ELSE IF r.status # 200 THEN "non2xx"
    ELSE IF r.body.kind \in {"nonjson", "regsize"} THEN "nonjson"
    ELSE IF r.body.kind = "scalar" THEN "scalar"
    ELSE IF r.body.kind = "dict" /\ r.body.error = "s400" THEN "err400"
    ELSE "good"

\* ------------------------------------------------------------------------
\* State
\* ------------------------------------------------------------------------
VARIABLES
    client,            \* "new", "ready" (constructed), "failed" (__init__ raised)
    token_unique,      \* _Credentials.token_unique: the API token or None
    config,            \* _Credentials.config: [email_password : BOOLEAN]
    data_credentials,  \* _Credentials.data_credentials: [id, userId]
    retries,           \* _Request.retries
    result,            \* _Request.result
    pc,                \* position inside get/post/put
    method,            \* "get", "post" or "put"
    url,               \* the access_token value built into the URL
    left,              \* the local variable `retries` of get/post/put
    respond,           \* the local variable `respond`
    outcome,           \* how the last get/post/put call (or __init__) ended
    nReq,              \* requests issued to the target path in this call
    nReissue,          \* requests reissued after a token refresh in this call
    nLogin,            \* obtain_token invocations in this call
    nSleep,            \* time.sleep(timeout_interval) calls in this call
    seen,              \* classes of the responses received in this call
    lastReq,           \* token carried by / current at the last request
    op,                \* public operation in progress, "none" for a direct call
    rpc,               \* position inside the public operation
    timeout,           \* the timeout argument of run_experiment, once read
    execution,         \* the local variable `execution` of run_experiment
    run_respond,       \* the local variable `respond` of run_experiment
    polls,             \* get_result_from_execution calls made by the poller
    nPollSleep,        \* time.sleep(2) calls made by the poller
    fetchRaised,       \* a poll's result fetch raised in this run
    run_outcome,       \* how the last public operation ended
    backend,           \* the backend argument of the public operation
    seed,              \* the seed argument of the operation, once read
    opLogins,          \* obtain_token invocations in this public operation
    opAttempts,        \* attempts of get/post/put in this public operation
    invoked,           \* the public operation last invoked: its name, and
                       \* whether the token was absent after its overrides
    noted              \* an earlier get call, as its caller saw it: the
                       \* response it was answered and the value returned

cred == <<token_unique, config, data_credentials>>
call == <<pc, method, url, left, respond, outcome>>
hist == <<nReq, nReissue, nLogin, nSleep, seen, lastReq>>
run == <<op, rpc, timeout, execution, run_respond, polls, nPollSleep,
         fetchRaised, run_outcome>>
oper == <<backend, seed, opLogins, opAttempts, invoked, noted>>
vars == <<client, cred, retries, result, call, hist, run, oper>>

NoOutcome == [kind |-> "none", exc |-> "none", value |-> NoResult]
\* seed=None.  A seed is described by what the code reads of it: its
\* truth value, len(str(seed)) and str(seed).isdigit()
NoSeed == [truthy |-> FALSE, len |-> 0, isdigit |-> FALSE]
\* nReq, nReissue, nLogin, nSleep, seen and lastReq describe a call made
\* directly on the transport client; inside a public operation they keep
\* their initial values and the per-operation counters are kept instead
Rec(old, new) == IF op = "none" THEN new ELSE old
NotInvoked == [name |-> "none", absent |-> FALSE]
\* n + 1 for a per-operation counter
Inc(n) == IF n < MaxCount THEN n + 1 ELSE n
Return(v) == [kind |-> "return", exc |-> "none", value |-> v]
Raise(e) == [kind |-> "raise", exc |-> e, value |-> NoResult]
NoRespond == [status |-> 0, body |-> NoResult]
\* no get call has been noted
NothingNoted == [set |-> FALSE, resp |-> NoRespond, value |-> NoResult]
\* values of the `result` dict built from result.data
NoRes ==
    [present |-> FALSE, measure |-> "absent", bloch |-> "absent",
     extraInfo |-> "absent", calibration |-> FALSE]
\* run_experiment's `respond = {}`
EmptyRespond ==
    [status |-> "absent", ids |-> FALSE, infoQueue |-> FALSE, result |-> NoRes,
     calibration |-> FALSE, error |-> FALSE]
NoRunOutcome == [kind |-> "none", exc |-> "none", isNone |-> FALSE]
NoReq == [carried |-> NoParam, current |-> NoneV, with_token |-> FALSE]

\* ------------------------------------------------------------------------
\* _Credentials
\* ------------------------------------------------------------------------
get_token(dc) == dc.id

get_user_id(dc) == dc.userId

set_token(dc, access_token) == [dc EXCEPT !.id = access_token]

set_user_id(dc, user_id) == [dc EXCEPT !.userId = user_id]

\* obtain_token: dc is data_credentials before the call, lr the answer of the
\* login endpoint.  Gives data_credentials afterwards, the exception raised
\* ("none" if none), and whether a login request was sent.
obtain_token(tu, cfg, dc, lr) ==
    IF Truthy(tu) \/ cfg.email_password
    THEN IF lr.kind = "nonjson"
         THEN [dc |-> dc, exc |-> "ValueError", login |-> TRUE]
         ELSE LET dc2 == [id |-> lr.id, userId |-> lr.userId]
              IN [dc |-> dc2,
                  exc |-> IF get_token(dc2) = NoneV
                          THEN "CredentialsError" ELSE "none",
                  login |-> TRUE]
    ELSE [dc |-> dc, exc |-> "CredentialsError", login |-> FALSE]

\* a credentials check that only refuses a missing token
check_credentials_notnone(dc) == get_token(dc) # NoneV

\* IBMQuantumExperience.check_credentials
check_credentials(dc) == Truthy(get_token(dc))

\* ------------------------------------------------------------------------
\* _Request: response validation
\* ------------------------------------------------------------------------
\* a _parse_response that asks for a retry on the register-size message
parse_response_retries(r) ==
    IF r.body.kind = "regsize" THEN "false" ELSE "true"

\* _parse_response: "raise" (RegisterSizeError) or "true"
parse_response(r) ==
    IF r.body.kind = "regsize" THEN "raise" ELSE "true"

\* _response_good raising on a JSON error body of status 400
response_good_400raises(r, res) ==
    IF r.status # 200
    THEN [ret |-> parse_response(r), exc |-> "RegisterSizeError",
          result |-> res]
    ELSE IF r.body.kind \in {"nonjson", "regsize"}
    THEN [ret |-> "raise", exc |-> "ApiError_http", result |-> res]
    ELSE IF r.body.kind \notin {"list", "dict"}
    THEN [ret |-> "raise", exc |-> "ApiError_json", result |-> r.body]
    ELSE IF r.body.kind = "list" \/ r.body.error # "s400"
    THEN [ret |-> "true", exc |-> "none", result |-> r.body]
    ELSE [ret |-> "raise", exc |-> "ApiError_json", result |-> r.body]

\* _response_good accepting a JSON error body of status 400
response_good_400good(r, res) ==
    IF r.status # 200
    THEN [ret |-> parse_response(r), exc |-> "RegisterSizeError",
          result |-> res]
    ELSE IF r.body.kind \in {"nonjson", "regsize"}
    THEN [ret |-> "raise", exc |-> "ApiError_http", result |-> res]
    ELSE IF r.body.kind \notin {"list", "dict"}
    THEN [ret |-> "raise", exc |-> "ApiError_json", result |-> r.body]
    ELSE [ret |-> "true", exc |-> "none", result |-> r.body]

\* _response_good asking for a retry when the body is not JSON
response_good_nonjson_retry(r, res) ==
    IF r.status # 200
    THEN [ret |-> parse_response(r), exc |-> "RegisterSizeError",
          result |-> res]
    ELSE IF r.body.kind \in {"nonjson", "regsize"}
    THEN [ret |-> "false", exc |-> "none", result |-> res]
    ELSE IF r.body.kind \notin {"list", "dict"}
    THEN [ret |-> "raise", exc |-> "ApiError_json", result |-> r.body]
    ELSE IF r.body.kind = "list" \/ r.body.error # "s400"
    THEN [ret |-> "true", exc |-> "none", result |-> r.body]
    ELSE [ret |-> "false", exc |-> "none", result |-> r.body]

\* _response_good: ret is "true", "false" or "raise"; result is self.result
\* afterwards (res is self.result before).
response_good(r, res) ==
    IF r.status # 200
    THEN [ret |-> parse_response(r), exc |-> "RegisterSizeError",
          result |-> res]
    ELSE IF r.body.kind \in {"nonjson", "regsize"}
    THEN [ret |-> "raise", exc |-> "ApiError_http", result |-> res]
    ELSE IF r.body.kind \notin {"list", "dict"}
    THEN [ret |-> "raise", exc |-> "ApiError_json", result |-> r.body]
    ELSE IF r.body.kind = "list" \/ r.body.error # "s400"
    THEN [ret |-> "true", exc |-> "none", result |-> r.body]
    ELSE [ret |-> "false", exc |-> "none", result |-> r.body]

\* the access_token built into the URL by get (lines 204-209) and by
\* post/put (lines 157-158, 182-183)
BuildUrl(m, with_token, tok) ==
    IF m = "get"
    THEN (IF with_token /\ Truthy(tok) THEN tok ELSE NoParam)
    ELSE tok

\* ------------------------------------------------------------------------
\* Construction
\* ------------------------------------------------------------------------
Init ==
    /\ client = "new"
    /\ token_unique = NoneV
    /\ config = [email_password |-> FALSE]
    /\ data_credentials = [id |-> NoneV, userId |-> NoneV]
    /\ retries = 0
    /\ result = NoResult
    /\ pc = "idle"
    /\ method = "get"
    /\ url = NoParam
    /\ left = 0
    /\ respond = NoRespond
    /\ outcome = NoOutcome
    /\ nReq = 0
    /\ nReissue = 0
    /\ nLogin = 0
    /\ nSleep = 0
    /\ seen = {}
    /\ lastReq = NoReq
    /\ op = "none"
    /\ rpc = "idle"
    /\ timeout = 0
    /\ execution = NoResult
    /\ run_respond = EmptyRespond
    /\ polls = 0
    /\ nPollSleep = 0
    /\ fetchRaised = "none"
    /\ run_outcome = NoRunOutcome
    /\ backend = NoneV
    /\ seed = NoSeed
    /\ opLogins = 0
    /\ opAttempts = 0
    /\ invoked = NotInvoked
    /\ noted = NothingNoted

\* _Credentials.__init__ followed by the rest of _Request.__init__
CredentialsInit(token, access_token, user_id, cfg, lr) ==
    LET empty == [id |-> NoneV, userId |-> NoneV]
    IN IF Truthy(token)
       THEN obtain_token(token, cfg, empty, lr)
       ELSE IF Truthy(access_token)
       THEN [dc |-> (IF Truthy(user_id)
                     THEN set_user_id(set_token(empty, access_token), user_id)
                     ELSE set_token(empty, access_token)),
             exc |-> "none", login |-> FALSE]
       ELSE obtain_token(token, cfg, empty, lr)

ConstructWith(R) ==
    /\ client = "new"
    /\ \E token \in {NoneV, "api"}, access_token \in {NoneV, "t0"},
          user_id \in {NoneV, "u0"}, ep \in BOOLEAN,
          r \in R, lr \in LoginResponses :
          LET cfg == [email_password |-> ep]
              c == CredentialsInit(token, access_token, user_id, cfg, lr)
          IN /\ token_unique' = token
             /\ config' = cfg
             /\ data_credentials' = c.dc
             /\ retries' = r
             /\ nLogin' = IF c.login THEN 1 ELSE 0
             /\ IF c.exc = "none"
                THEN /\ client' = "ready"
                     /\ outcome' = NoOutcome
                ELSE /\ client' = "failed"
                     /\ outcome' = Raise(c.exc)
    /\ UNCHANGED <<result, pc, method, url, left, respond, nReq, nReissue,
                   nSleep, seen, lastReq, run, oper>>

\* _Request(token, config, retries=r)
Construct == ConstructWith(0..MaxRetries)

\* IBMQuantumExperience(token, config): _Request with the default retries
ConstructClient == ConstructWith({DefaultRetries})

\* ------------------------------------------------------------------------
\* _Request.get / post / put
\* ------------------------------------------------------------------------
\* entry of get/post/put up to the first test of the while loop
Enter(m, with_token, tok) ==
    /\ method' = m
    /\ IF m # "get" /\ tok = NoneV
       THEN \* str + None
            /\ pc' = "done"
            /\ outcome' = Raise("TypeError")
            /\ url' = NoParam
            /\ left' = 0
            /\ lastReq' = NoReq
       ELSE /\ pc' = "loop"
            /\ outcome' = NoOutcome
            /\ url' = BuildUrl(m, with_token, tok)
            /\ left' = retries
            /\ lastReq' = [NoReq EXCEPT !.with_token = with_token]
    /\ respond' = NoRespond
    /\ nReq' = 0
    /\ nReissue' = 0
    /\ nLogin' = 0
    /\ nSleep' = 0
    /\ seen' = {}

\* a get/post/put call made on the transport client
Call ==
    /\ client = "ready"
    /\ op = "none"
    /\ pc \in {"idle", "done"}
    /\ UNCHANGED <<client, cred, retries, result, run, backend, seed,
                   invoked, noted>>
    /\ opLogins' = 0
    /\ opAttempts' = 0
    /\ \E m \in {"get", "post", "put"}, with_token \in BOOLEAN :
          /\ (m # "get" => with_token)
          /\ Enter(m, with_token, get_token(data_credentials))

\* requests.get/post/put(url, ...): first request of an attempt
Send ==
    /\ pc = "loop"
    /\ left > 0
    /\ \E r \in Responses :
          /\ respond' = r
          /\ seen' = Rec(seen, seen \cup {Class(r)})
    /\ nReq' = Rec(nReq, nReq + 1)
    /\ lastReq' = Rec(lastReq,
                    [lastReq EXCEPT
                        !.carried = url,
                        !.current = get_token(data_credentials)])
    /\ pc' = "check"
    /\ opAttempts' = Inc(opAttempts)
    /\ UNCHANGED <<client, cred, retries, result, method, url, left, outcome,
                   nReissue, nLogin, nSleep, run, backend, seed, opLogins,
                   invoked, noted>>

\* check_token(respond)
CheckToken ==
    /\ pc = "check"
    /\ IF respond.status = 401
       THEN \E lr \in LoginResponses :
               LET c == obtain_token(token_unique, config,
                                     data_credentials, lr)
               IN /\ data_credentials' = c.dc
                  /\ nLogin' = Rec(nLogin, nLogin + 1)
                  /\ opLogins' = Inc(opLogins)
                  /\ IF c.exc = "none"
                     THEN /\ pc' = "resend"
                          /\ outcome' = outcome
                     ELSE /\ pc' = "done"
                          /\ outcome' = Raise(c.exc)
       ELSE /\ pc' = "validate"
            /\ UNCHANGED <<data_credentials, nLogin, outcome, opLogins>>
    /\ UNCHANGED <<client, token_unique, config, retries, result, method, url,
                   left, respond, nReq, nReissue, nSleep, seen, lastReq, run,
                   backend, seed, opAttempts, invoked, noted>>

\* a reissue whose response goes through check_token again
Resend_recheck ==
    /\ pc = "resend"
    /\ \E r \in Responses :
          /\ respond' = r
          /\ seen' = Rec(seen, seen \cup {Class(r)})
    /\ nReq' = Rec(nReq, nReq + 1)
    /\ nReissue' = Rec(nReissue, nReissue + 1)
    /\ lastReq' = Rec(lastReq,
                    [lastReq EXCEPT
                        !.carried = url,
                        !.current = get_token(data_credentials)])
    /\ pc' = "check"
    /\ UNCHANGED <<client, cred, retries, result, method, url, left, outcome,
                   nLogin, nSleep, run, oper>>

\* a reissue that is counted against the retry budget
Resend_counted ==
    /\ pc = "resend"
    /\ \E r \in Responses :
          /\ respond' = r
          /\ seen' = Rec(seen, seen \cup {Class(r)})
    /\ nReq' = Rec(nReq, nReq + 1)
    /\ nReissue' = Rec(nReissue, nReissue + 1)
    /\ lastReq' = Rec(lastReq,
                    [lastReq EXCEPT
                        !.carried = url,
                        !.current = get_token(data_credentials)])
    /\ left' = left - 1
    /\ pc' = "validate"
    /\ UNCHANGED <<client, cred, retries, result, method, url, outcome,
                   nLogin, nSleep, run, oper>>

\* the request reissued when check_token returned False
Resend ==
    /\ pc = "resend"
    /\ \E r \in Responses :
          /\ respond' = r
          /\ seen' = Rec(seen, seen \cup {Class(r)})
    /\ nReq' = Rec(nReq, nReq + 1)
    /\ nReissue' = Rec(nReissue, nReissue + 1)
    /\ lastReq' = Rec(lastReq,
                    [lastReq EXCEPT
                        !.carried = url,
                        !.current = get_token(data_credentials)])
    /\ pc' = "validate"
    /\ UNCHANGED <<client, cred, retries, result, method, url, left, outcome,
                   nLogin, nSleep, run, oper>>

\* a failed attempt that is not taken from the retry budget
ResponseGood_keeps_budget ==
    /\ pc = "validate"
    /\ LET g == response_good(respond, result)
       IN /\ result' = g.result
          /\ CASE g.ret = "raise" ->
                    /\ pc' = "done"
                    /\ outcome' = Raise(g.exc)
                    /\ UNCHANGED <<left, nSleep, respond>>
               [] g.ret = "true" ->
                    /\ pc' = "done"
                    /\ outcome' = Return(g.result)
                    /\ UNCHANGED <<left, nSleep, respond>>
               [] g.ret = "false" ->
                    /\ pc' = "loop"
                    /\ left' = left
                    /\ nSleep' = Rec(nSleep, nSleep + 1)
                    /\ respond' = NoRespond
                    /\ UNCHANGED outcome
    /\ UNCHANGED <<client, cred, retries, method, url, nReq, nReissue, nLogin,
                   seen, lastReq, run, oper>>

\* if self._response_good(respond): return self.result
\* else: retries -= 1; time.sleep(self.timeout_interval)
ResponseGood ==
    /\ pc = "validate"
    /\ LET g == response_good(respond, result)
       IN /\ result' = g.result
          /\ CASE g.ret = "raise" ->
                    /\ pc' = "done"
                    /\ outcome' = Raise(g.exc)
                    /\ UNCHANGED <<left, nSleep, respond>>
               [] g.ret = "true" ->
                    /\ pc' = "done"
                    /\ outcome' = Return(g.result)
                    /\ UNCHANGED <<left, nSleep, respond>>
               [] g.ret = "false" ->
                    /\ pc' = "loop"
                    /\ left' = left - 1
                    /\ nSleep' = Rec(nSleep, nSleep + 1)
                    /\ respond' = NoRespond
                    /\ UNCHANGED outcome
    /\ UNCHANGED <<client, cred, retries, method, url, nReq, nReissue, nLogin,
                   seen, lastReq, run, oper>>

\* the while loop ends: raise ApiError('Failed to get proper response ...')
Exhausted ==
    /\ pc = "loop"
    /\ left <= 0
    /\ pc' = "done"
    /\ outcome' = Raise("ApiError_retries")
    /\ UNCHANGED <<client, cred, retries, result, method, url, left, respond,
                   hist, run, oper>>

\* ------------------------------------------------------------------------
\* IBMQuantumExperience.run_experiment
\* ------------------------------------------------------------------------
\* the old-style names of _check_backend for endpoint 'experiment'
\* (lines 310-316); NoneV when the name is in none of the alias tables
names_backend_ibmqxv2 == {"ibmqx5qv2", "ibmqx2", "qx5qv2", "qx5q", "real"}
names_backend_ibmqxv3 == {"ibmqx3"}
names_backend_simulator == {"simulator", "sim_trivial_2",
                            "ibmqx_qasm_simulator"}

check_backend_experiment(name) ==
    IF name \in names_backend_ibmqxv2 THEN "real"
    ELSE IF name \in names_backend_ibmqxv3 THEN "ibmqx3"
    ELSE IF name \in names_backend_simulator THEN "sim_trivial_2"
    ELSE NoneV

\* the old-style names for endpoint 'job' (lines 317-323)
check_backend_job(name) ==
    IF name \in names_backend_ibmqxv2 THEN "ibmqx2"
    ELSE IF name \in names_backend_ibmqxv3 THEN "ibmqx3"
    ELSE IF name \in names_backend_simulator THEN "simulator"
    ELSE NoneV

\* the old-style names for endpoint 'status' (lines 324-330)
check_backend_status(name) ==
    IF name \in names_backend_ibmqxv2 THEN "ibmqx2"
    ELSE IF name \in names_backend_ibmqxv3 THEN "ibmqx3"
    ELSE IF name \in names_backend_simulator THEN "ibmqx_qasm_simulator"
    ELSE NoneV

\* the entries of the list a BackendList body stands for
ListedBackends ==
    { [name |-> "qasm_sim", status |-> "on", simulator |-> TRUE],
      [name |-> "ibmqx4", status |-> "on", simulator |-> FALSE],
      [name |-> "ibmqx5", status |-> "off", simulator |-> FALSE] }

\* available_backends() once self.req.get('/Backends') returned v: the
\* comprehension over v keeps the entries whose status is 'on'; iterating
\* None raises TypeError, iterating a dict gives its keys (strings)
available_backends(v) ==
    IF v.kind = "list"
    THEN [exc |-> "none",
          backends |-> IF v.listing
                       THEN {b \in ListedBackends : b.status = "on"}
                       ELSE {}]
    ELSE IF v.kind = "dict"
    THEN [exc |-> "AttributeError", backends |-> {}]
    ELSE [exc |-> "TypeError", backends |-> {}]

\* a lookup that passes on a name it did not find
check_backend_listed_passes(name, backends) ==
    IF \E b \in backends : b.name = name
    THEN LET b == CHOOSE x \in backends : x.name = name
         IN IF b.simulator THEN "chip_simulator" ELSE name
    ELSE name

\* the new-style part of _check_backend (lines 339-348)
check_backend_listed(name, backends) ==
    IF \E b \in backends : b.name = name
    THEN LET b == CHOOSE x \in backends : x.name = name
         IN IF b.simulator THEN "chip_simulator" ELSE name
    ELSE NoneV

\* backend names and seeds given to run_experiment and run_job
Backends == {"simulator", "real", "qasm_sim", "ibmqx4", "ibmqx5", "nope"}
Seeds ==
    { NoSeed,
      [truthy |-> TRUE, len |-> 3, isdigit |-> TRUE],
      [truthy |-> TRUE, len |-> 11, isdigit |-> TRUE],
      [truthy |-> TRUE, len |-> 3, isdigit |-> FALSE] }

\* seed and len(str(seed)) < 11 and str(seed).isdigit()
SeedValid(sd) == sd.truthy /\ sd.len < 11 /\ sd.isdigit

\* what run_experiment does between its credentials check and the
\* submission: "post" or the exception raised (lines 454-475)
BeforeSubmit(backend_type, name, sd) ==
    IF backend_type = NoneV THEN "BadBackendError"
    ELSE IF name \notin names_backend_simulator /\ sd.truthy
    THEN "ApiError_seed_backend"
    ELSE IF SeedValid(sd) THEN "post"
    ELSE IF sd.truthy THEN "ApiError_seed"
    ELSE "post"

\* a seed check that only refuses what is not numeric
JobBeforeSubmit_lenient(backend_type, sd) ==
    IF backend_type = NoneV THEN "BadBackendError"
    ELSE IF sd.truthy /\ ~sd.isdigit THEN "Not seed allowed"
    ELSE "post"

\* what run_job does between _check_backend and the submission (lines
\* 545-557): "post", the exception raised, or the error dict returned
JobBeforeSubmit(backend_type, sd) ==
    IF backend_type = NoneV THEN "BadBackendError"
    ELSE IF SeedValid(sd) THEN "post"
    ELSE IF sd.truthy THEN "Not seed allowed"
    ELSE "post"

\* the `result` dict of get_result_from_execution (lines 382-398) and of the
\* DONE branch of run_experiment; exc is the exception raised, if any
IsEmpty(res) ==
    /\ res.measure = "absent"
    /\ res.bloch = "absent"
    /\ res.extraInfo = "absent"
    /\ ~res.calibration

TruthyOr(v) == IF v \in {"absent", "empty"} THEN "absent" ELSE v

get_result(exe) ==
    IF exe.kind \in {"None", "scalar"}
    THEN [exc |-> "TypeError", result |-> NoRes]
    ELSE IF exe.kind = "dict" /\ exe.data
    THEN [exc |-> "none",
          result |-> [present |-> TRUE, measure |-> TruthyOr(exe.p),
                      bloch |-> TruthyOr(exe.valsxyz),
                      extraInfo |-> exe.additionalData,
                      calibration |-> exe.calibration]]
    ELSE [exc |-> "none", result |-> [NoRes EXCEPT !.present = TRUE]]

\* a loop that runs once more than the timeout
PollRange_more(tmo) == tmo + 1

\* number of iterations of `for _ in range(1, timeout)`
PollRange(tmo) == IF tmo > 1 THEN tmo - 1 ELSE 0

\* a DONE submission without result payload is polled
AfterSubmit_done_polls(exe, tmo) ==
    IF exe.kind # "dict" \/ exe.status = "absent" \/ ~exe.ids
    THEN [respond |-> EmptyRespond, next |-> "except"]
    ELSE LET r0 == [EmptyRespond EXCEPT !.status = exe.status, !.ids = TRUE,
                                        !.infoQueue = exe.infoQueue]
         IN IF exe.status = "DONE"
            THEN IF exe.data
                 THEN [respond |->
                          [r0 EXCEPT !.infoQueue = FALSE,
                                     !.result =
                                        [present |-> TRUE,
                                         measure |-> TruthyOr(exe.p),
                                         bloch |-> TruthyOr(exe.valsxyz),
                                         extraInfo |-> exe.additionalData,
                                         calibration |-> FALSE]],
                       next |-> "return"]
                 ELSE [respond |-> r0, next |-> "poll"]
            ELSE IF exe.status = "ERROR"
            THEN [respond |-> [r0 EXCEPT !.infoQueue = FALSE],
                  next |-> "return"]
            ELSE IF tmo # 0
            THEN [respond |-> r0, next |-> "poll"]
            ELSE [respond |-> r0, next |-> "return"]

\* the timeout argument is not looked at
AfterSubmit_always_polls(exe, tmo) ==
    IF exe.kind # "dict" \/ exe.status = "absent" \/ ~exe.ids
    THEN [respond |-> EmptyRespond, next |-> "except"]
    ELSE LET r0 == [EmptyRespond EXCEPT !.status = exe.status, !.ids = TRUE,
                                        !.infoQueue = exe.infoQueue]
         IN IF exe.status = "DONE"
            THEN IF exe.data
                 THEN [respond |->
                          [r0 EXCEPT !.infoQueue = FALSE,
                                     !.result =
                                        [present |-> TRUE,
                                         measure |-> TruthyOr(exe.p),
                                         bloch |-> TruthyOr(exe.valsxyz),
                                         extraInfo |-> exe.additionalData,
                                         calibration |-> FALSE]],
                       next |-> "return"]
                 ELSE [respond |-> r0, next |-> "return_none"]
            ELSE IF exe.status = "ERROR"
            THEN [respond |-> [r0 EXCEPT !.infoQueue = FALSE],
                  next |-> "return"]
            ELSE [respond |-> r0, next |-> "poll"]

\* the try block from line 478 up to the polling loop: gives the respond
\* dict and what follows: "return", "return_none" (the function ends without
\* a return statement), "poll", or "except" (an exception was caught)
AfterSubmit(exe, tmo) ==
    IF exe.kind # "dict" \/ exe.status = "absent" \/ ~exe.ids
    THEN [respond |-> EmptyRespond, next |-> "except"]
    ELSE LET r0 == [EmptyRespond EXCEPT !.status = exe.status, !.ids = TRUE,
                                        !.infoQueue = exe.infoQueue]
         IN IF exe.status = "DONE"
            THEN IF exe.data
                 THEN [respond |->
                          [r0 EXCEPT !.infoQueue = FALSE,
                                     !.result =
                                        [present |-> TRUE,
                                         measure |-> TruthyOr(exe.p),
                                         bloch |-> TruthyOr(exe.valsxyz),
                                         extraInfo |-> exe.additionalData,
                                         calibration |-> FALSE]],
                       next |-> "return"]
                 ELSE [respond |-> r0, next |-> "return_none"]
            ELSE IF exe.status = "ERROR"
            THEN [respond |-> [r0 EXCEPT !.infoQueue = FALSE],
                  next |-> "return"]
            ELSE IF tmo # 0
            THEN [respond |-> r0, next |-> "poll"]
            ELSE [respond |-> r0, next |-> "return"]

\* lines 510-518: the poller's handling of a fetched result
AfterFetch(resp, res) ==
    IF ~IsEmpty(res)
    THEN LET r1 == [resp EXCEPT !.status = "DONE", !.result = res]
         IN IF res.calibration
            THEN [respond |-> [r1 EXCEPT !.calibration = TRUE,
                                         !.result.calibration = FALSE,
                                         !.infoQueue = FALSE],
                  next |-> "return"]
            ELSE \* result["calibration"] raises KeyError
                 [respond |-> r1, next |-> "except"]
    ELSE [respond |-> resp, next |-> "sleep"]

RunReturn == [kind |-> "return", exc |-> "none", isNone |-> FALSE]
RunRaise(e) == [kind |-> "raise", exc |-> e, isNone |-> FALSE]
\* return {"error": e}
RunError(e) == [kind |-> "error", exc |-> e, isNone |-> FALSE]

\* except Exception: respond["error"] = execution; return respond
\* the frame of a finished get/post/put call is gone once its caller went on
Leave ==
    /\ pc' = "idle"
    /\ outcome' = NoOutcome
    /\ method' = "get"
    /\ url' = NoParam
    /\ left' = 0
    /\ respond' = NoRespond
    /\ nReq' = 0
    /\ nReissue' = 0
    /\ nLogin' = 0
    /\ nSleep' = 0
    /\ seen' = {}
    /\ lastReq' = NoReq

Swallow(resp) ==
    /\ run_respond' = [resp EXCEPT !.error = TRUE]
    /\ run_outcome' = RunReturn
    /\ rpc' = "done"
    /\ op' = "none"

\* if access_token: set_token(access_token); if user_id: set_user_id(user_id)
Overrides(dc, access_token, user_id) ==
    LET dc1 == IF Truthy(access_token) THEN set_token(dc, access_token)
               ELSE dc
    IN IF Truthy(user_id) THEN set_user_id(dc1, user_id) ELSE dc1

\* the public operation ends with outcome o
Finish(o) ==
    /\ run_outcome' = o
    /\ rpc' = "done"
    /\ op' = "none"

\* run_experiment (lines 456-475) and run_job (lines 547-556) once
\* _check_backend gave backend_type: the submission is entered or the
\* operation ends; inCall tells that a finished get call is being left
Submit(o, backend_type, name, sd, tok, inCall) ==
    LET b == IF o = "run_experiment"
             THEN BeforeSubmit(backend_type, name, sd)
             ELSE JobBeforeSubmit(backend_type, sd)
    IN /\ seed' = sd
       /\ IF b = "post"
          THEN /\ run_outcome' = NoRunOutcome
               /\ rpc' = "post"
               /\ op' = o
               /\ backend' = NoneV
               /\ Enter("post", TRUE, tok)
          ELSE /\ Finish(IF b = "Not seed allowed" THEN RunError(b)
                         ELSE RunRaise(b))
               /\ backend' = name
               /\ IF inCall THEN Leave ELSE UNCHANGED <<call, hist>>

\* what an operation does when check_credentials() is False: it raises
\* CredentialsError, returns {"error": "Not credentials valid"}, or (for
\* backend_status) makes no check at all
Guard(o) ==
    IF o \in {"run_experiment", "get_image_code", "available_backends"}
    THEN "raise"
    ELSE IF o = "backend_status" THEN "none"
    ELSE "error"

Denied(o) ==
    IF Guard(o) = "error" THEN RunError("Not credentials valid")
    ELSE RunRaise("CredentialsError")

\* the head of a public operation: the overrides gave dc2
Prologue(o, dc2) ==
    /\ data_credentials' = dc2
    /\ invoked' = [name |-> o, absent |-> ~Truthy(get_token(dc2))]
    /\ opLogins' = 0
    /\ opAttempts' = 0
    /\ timeout' = 0
    /\ execution' = NoResult
    /\ run_respond' = EmptyRespond
    /\ polls' = 0
    /\ nPollSleep' = 0
    /\ fetchRaised' = "none"

\* run_experiment and run_job from their entry to the first get/post call:
\* overrides, credentials check, _check_backend (lines 447-456, 531-545)
Start(o, name, access_token, user_id) ==
    LET dc2 == Overrides(data_credentials, access_token, user_id)
        alias == IF o = "run_experiment" THEN check_backend_experiment(name)
                 ELSE check_backend_job(name)
    IN /\ Prologue(o, dc2)
       /\ IF ~check_credentials(dc2)
          THEN /\ Finish(Denied(o))
               /\ backend' = name
               /\ seed' = NoSeed
               /\ UNCHANGED <<call, hist>>
          ELSE IF alias # NoneV
          THEN \E sd \in Seeds :
                  Submit(o, alias, name, sd, get_token(dc2), FALSE)
          ELSE \* available_backends(): self.req.get('/Backends')
               /\ run_outcome' = NoRunOutcome
               /\ seed' = NoSeed
               /\ rpc' = "backends"
               /\ op' = o
               /\ backend' = name
               /\ Enter("get", TRUE, get_token(dc2))

\* backend_status once _check_backend gave backend_type (lines 612-617)
StatusRequest(backend_type, name, tok, inCall) ==
    IF backend_type = NoneV
    THEN /\ Finish(RunRaise("BadBackendError"))
         /\ backend' = name
         /\ IF inCall THEN Leave ELSE UNCHANGED <<call, hist>>
    ELSE /\ run_outcome' = NoRunOutcome
         /\ rpc' = "call"
         /\ op' = "backend_status"
         /\ backend' = NoneV
         /\ Enter("get", FALSE, tok)

\* run_experiment from its entry to its first get/post call
RunExperiment ==
    /\ client = "ready"
    /\ op = "none"
    /\ pc \in {"idle", "done"}
    /\ \E name \in Backends,
          access_token \in {NoneV, "t1"}, user_id \in {NoneV, "u1"} :
          Start("run_experiment", name, access_token, user_id)
    /\ UNCHANGED <<client, token_unique, config, retries, result, noted>>

\* run_job from its entry to its first get/post call
RunJob ==
    /\ client = "ready"
    /\ op = "none"
    /\ pc \in {"idle", "done"}
    /\ \E name \in Backends,
          access_token \in {NoneV, "t1"}, user_id \in {NoneV, "u1"} :
          Start("run_job", name, access_token, user_id)
    /\ UNCHANGED <<client, token_unique, config, retries, result, noted>>

\* GET /Backends returned or raised: rest of available_backends and of
\* _check_backend, then the operation up to its submission
RunAfterBackends ==
    /\ op \in {"run_experiment", "run_job", "backend_status"}
    /\ rpc = "backends"
    /\ pc = "done"
    /\ IF outcome.kind = "raise"
       THEN /\ Finish(RunRaise(outcome.exc))
            /\ Leave
            /\ UNCHANGED <<backend, seed>>
       ELSE LET a == available_backends(outcome.value)
            IN IF a.exc # "none"
               THEN /\ Finish(RunRaise(a.exc))
                    /\ Leave
                    /\ UNCHANGED <<backend, seed>>
               ELSE IF op = "backend_status"
               THEN /\ StatusRequest(
                          check_backend_listed(backend, a.backends),
                          backend, get_token(data_credentials), TRUE)
                    /\ UNCHANGED seed
               ELSE \E sd \in Seeds :
                       Submit(op, check_backend_listed(backend, a.backends),
                              backend, sd, get_token(data_credentials), TRUE)
    /\ UNCHANGED <<client, cred, retries, result, timeout, execution,
                   run_respond, polls, nPollSleep, fetchRaised,
                   opLogins, opAttempts, invoked, noted>>

\* backend_status from its entry to its first get call (lines 608-617);
\* available_backends() raises CredentialsError without credentials
BackendStatus ==
    /\ client = "ready"
    /\ op = "none"
    /\ pc \in {"idle", "done"}
    /\ \E name \in Backends,
          access_token \in {NoneV, "t1"}, user_id \in {NoneV, "u1"} :
          LET dc2 == Overrides(data_credentials, access_token, user_id)
              alias == check_backend_status(name)
          IN /\ Prologue("backend_status", dc2)
             /\ seed' = NoSeed
             /\ IF alias # NoneV
                THEN StatusRequest(alias, name, get_token(dc2), FALSE)
                ELSE IF ~check_credentials(dc2)
                THEN /\ Finish(RunRaise("CredentialsError"))
                     /\ backend' = name
                     /\ UNCHANGED <<call, hist>>
                ELSE /\ run_outcome' = NoRunOutcome
                     /\ rpc' = "backends"
                     /\ op' = "backend_status"
                     /\ backend' = name
                     /\ Enter("get", TRUE, get_token(dc2))
    /\ UNCHANGED <<client, token_unique, config, retries, result, noted>>

\* the operations that make one get/post call and return what it returned
SimpleOps ==
    {"get_image_code", "get_jobs", "create_user", "available_backends"}

\* get_image_code, get_jobs, create_user, available_backends and
\* set_user_group from their entry to their first get/post call
PublicOp ==
    /\ client = "ready"
    /\ op = "none"
    /\ pc \in {"idle", "done"}
    /\ \E o \in SimpleOps \cup {"set_user_group"},
          access_token \in {NoneV, "t1"}, user_id \in {NoneV, "u1"} :
          LET dc2 == Overrides(data_credentials, access_token, user_id)
          IN /\ Prologue(o, dc2)
             /\ seed' = NoSeed
             /\ backend' = NoneV
             /\ IF ~check_credentials(dc2)
                THEN /\ Finish(Denied(o))
                     /\ UNCHANGED <<call, hist>>
                ELSE /\ run_outcome' = NoRunOutcome
                     /\ rpc' = IF o = "set_user_group" THEN "groups"
                               ELSE "call"
                     /\ op' = o
                     /\ Enter(IF o = "create_user" THEN "post" ELSE "get",
                              TRUE, get_token(dc2))
    /\ UNCHANGED <<client, token_unique, config, retries, result, noted>>

\* set_user_group once get_user_groups returned or raised (lines 785-797):
\* match tells whether name_user_group is the name of a listed group
SetUserGroup ==
    /\ op = "set_user_group"
    /\ rpc = "groups"
    /\ pc = "done"
    /\ IF outcome.kind = "raise"
       THEN Finish(RunRaise(outcome.exc)) /\ Leave
       ELSE IF outcome.value.kind # "list"
       THEN Finish(RunRaise("TypeError")) /\ Leave
       ELSE \E match \in BOOLEAN :
               IF outcome.value.listing /\ match
               THEN /\ run_outcome' = NoRunOutcome
                    /\ rpc' = "call"
                    /\ op' = op
                    /\ Enter("put", TRUE, get_token(data_credentials))
               ELSE Finish(RunRaise("ApiError_group")) /\ Leave
    /\ UNCHANGED <<client, cred, retries, result, timeout, execution,
                   run_respond, polls, nPollSleep, fetchRaised, oper>>

\* what an operation returns once its last get/post/put call returned v
Returned(o, v) ==
    IF o = "available_backends"
    THEN (IF available_backends(v).exc # "none"
          THEN RunRaise(available_backends(v).exc)
          ELSE RunReturn)
    ELSE IF o = "backend_status"
    THEN (IF v.kind \in {"None", "scalar"} THEN RunRaise("TypeError")
          ELSE RunReturn)
    ELSE [RunReturn EXCEPT !.isNone = (v.kind = "None")]

\* the last call of get_image_code, get_jobs, create_user,
\* available_backends, backend_status or set_user_group returned or raised
OpAfterCall ==
    /\ rpc = "call"
    /\ pc = "done"
    /\ Finish(IF outcome.kind = "raise" THEN RunRaise(outcome.exc)
              ELSE Returned(op, outcome.value))
    /\ Leave
    /\ UNCHANGED <<client, cred, retries, result, timeout, execution,
                   run_respond, polls, nPollSleep, fetchRaised, oper>>

\* the submission returned or raised; the try block up to the polling loop
RunAfterPost ==
    /\ op \in {"run_experiment", "run_job"}
    /\ rpc = "post"
    /\ pc = "done"
    /\ IF outcome.kind = "raise"
       THEN /\ Finish(RunRaise(outcome.exc))
            /\ UNCHANGED <<execution, run_respond, timeout>>
       ELSE IF op = "run_job"
       THEN \* return job
            /\ execution' = outcome.value
            /\ Finish([RunReturn EXCEPT
                          !.isNone = (outcome.value.kind = "None")])
            /\ UNCHANGED <<run_respond, timeout>>
       ELSE \E tmo \in 0..MaxTimeout :
            LET a == AfterSubmit(outcome.value, tmo)
            IN /\ execution' = outcome.value
               /\ timeout' = tmo
               /\ CASE a.next = "except" -> Swallow(a.respond)
                    [] a.next = "return" ->
                         /\ run_respond' = a.respond
                         /\ run_outcome' = RunReturn
                         /\ rpc' = "done"
                         /\ op' = "none"
                    [] a.next = "return_none" ->
                         /\ run_respond' = a.respond
                         /\ run_outcome' = [RunReturn EXCEPT !.isNone = TRUE]
                         /\ rpc' = "done"
                         /\ op' = "none"
                    [] a.next = "poll" ->
                         /\ run_respond' = a.respond
                         /\ run_outcome' = NoRunOutcome
                         /\ rpc' = "poll"
                         /\ op' = "run_experiment"
    /\ Leave
    /\ seed' = NoSeed
    /\ UNCHANGED <<client, cred, retries, result, polls, nPollSleep,
                   fetchRaised, backend, opLogins, opAttempts, invoked,
                   noted>>

\* the poller raises when its attempts are used up
RunPoll_timeout_error ==
    /\ op = "run_experiment"
    /\ rpc = "poll"
    /\ IF polls >= PollRange(timeout)
       THEN /\ run_outcome' = RunRaise("TimeoutError")
            /\ rpc' = "done"
            /\ op' = "none"
            /\ UNCHANGED <<run_respond, polls, call, hist>>
       ELSE /\ polls' = polls + 1
            /\ IF ~check_credentials(data_credentials)
               THEN /\ Swallow(run_respond)
                    /\ UNCHANGED <<call, hist>>
               ELSE /\ rpc' = "fetch"
                    /\ Enter("get", TRUE, get_token(data_credentials))
                    /\ UNCHANGED <<op, run_respond, run_outcome>>
    /\ UNCHANGED <<client, cred, retries, result, timeout, execution,
                   nPollSleep, fetchRaised, oper>>

\* one test of `for _ in range(1, timeout)`: either the loop is over and
\* respond is returned, or get_result_from_execution is entered (lines
\* 375-381: credentials check, then self.req.get)
RunPoll ==
    /\ op = "run_experiment"
    /\ rpc = "poll"
    /\ IF polls >= PollRange(timeout)
       THEN /\ run_outcome' = RunReturn
            /\ rpc' = "done"
            /\ op' = "none"
            /\ UNCHANGED <<run_respond, polls, call, hist>>
       ELSE /\ polls' = polls + 1
            /\ IF ~check_credentials(data_credentials)
               THEN /\ Swallow(run_respond)
                    /\ UNCHANGED <<call, hist>>
               ELSE /\ rpc' = "fetch"
                    /\ Enter("get", TRUE, get_token(data_credentials))
                    /\ UNCHANGED <<op, run_respond, run_outcome>>
    /\ UNCHANGED <<client, cred, retries, result, timeout, execution,
                   nPollSleep, fetchRaised, oper>>

\* the fetch returned or raised: rest of get_result_from_execution and of
\* the loop body (lines 382-398, 510-518)
RunAfterFetch ==
    /\ op = "run_experiment"
    /\ rpc = "fetch"
    /\ pc = "done"
    /\ IF outcome.kind = "raise"
       THEN /\ fetchRaised' = outcome.exc
            /\ Swallow(run_respond)
            /\ UNCHANGED nPollSleep
       ELSE LET g == get_result(outcome.value)
                f == AfterFetch(run_respond, g.result)
            IN /\ UNCHANGED fetchRaised
               /\ IF g.exc # "none"
                  THEN /\ Swallow(run_respond)
                       /\ UNCHANGED nPollSleep
                  ELSE CASE f.next = "except" ->
                              /\ Swallow(f.respond)
                              /\ UNCHANGED nPollSleep
                         [] f.next = "return" ->
                              /\ run_respond' = f.respond
                              /\ run_outcome' = RunReturn
                              /\ rpc' = "done"
                              /\ op' = "none"
                              /\ UNCHANGED nPollSleep
                         [] f.next = "sleep" ->
                              /\ nPollSleep' = nPollSleep + 1
                              /\ rpc' = "poll"
                              /\ UNCHANGED <<op, run_respond, run_outcome>>
    /\ Leave
    /\ UNCHANGED <<client, cred, retries, result, timeout, execution, polls,
                   oper>>

\* the answers of the remote resource whose get calls the caller compares
Watched ==
    { [status |-> 200, body |-> DoneFull], [status |-> 503, body |-> NonJson] }

\* the caller keeps what a get call returned: a call made with the token,
\* answered by its first request
NoteGet ==
    /\ client = "ready"
    /\ op = "none"
    /\ pc = "done"
    /\ method = "get"
    /\ lastReq.with_token
    /\ nReq = 1
    /\ respond \in Watched
    /\ outcome.kind = "return"
    /\ ~noted.set
    /\ noted' = [set |-> TRUE, resp |-> respond, value |-> outcome.value]
    /\ UNCHANGED <<client, cred, retries, result, call, hist, run, backend,
                   seed, opLogins, opAttempts, invoked>>

Next ==
    \/ Construct
    \/ Call
    \/ Send
    \/ CheckToken
    \/ Resend
    \/ ResponseGood
    \/ Exhausted

Spec == Init /\ [][Next]_vars

\* the steps inside a get/post/put call: the client is one thread of
\* control and the server answers every request
CallProgress ==
    \/ Send
    \/ CheckToken
    \/ Resend
    \/ ResponseGood
    \/ Exhausted

SpecFair == Spec /\ WF_vars(CallProgress)

\* a transport client with one attempt per call, and a caller that
\* compares what its get calls return
NextGet ==
    \/ ConstructWith({1})
    \/ Call
    \/ NoteGet
    \/ Send
    \/ CheckToken
    \/ Resend
    \/ ResponseGood
    \/ Exhausted

SpecGet == Init /\ [][NextGet]_vars

\* the public client: run_experiment on top of the transport client
NextRun ==
    \/ ConstructClient
    \/ RunExperiment
    \/ RunJob
    \/ BackendStatus
    \/ PublicOp
    \/ SetUserGroup
    \/ OpAfterCall
    \/ RunAfterBackends
    \/ RunAfterPost
    \/ RunPoll
    \/ RunAfterFetch
    \/ Send
    \/ CheckToken
    \/ Resend
    \/ ResponseGood
    \/ Exhausted

SpecRun == Init /\ [][NextRun]_vars

\* a client on which only run_experiment is invoked
NextPoll ==
    \/ ConstructClient
    \/ RunExperiment
    \/ RunAfterBackends
    \/ RunAfterPost
    \/ RunPoll
    \/ RunAfterFetch
    \/ Send
    \/ CheckToken
    \/ Resend
    \/ ResponseGood
    \/ Exhausted

\* the steps inside run_experiment and inside its get/post calls: the
\* client is one thread of control and the server answers every request,
\* so a step that can be taken is taken
Progress ==
    \/ RunAfterBackends
    \/ RunAfterPost
    \/ RunPoll
    \/ RunAfterFetch
    \/ Send
    \/ CheckToken
    \/ Resend
    \/ ResponseGood
    \/ Exhausted

SpecPoll == Init /\ [][NextPoll]_vars /\ WF_vars(Progress)

\* ------------------------------------------------------------------------
\* Properties of the transport client (checked under Spec)
\* ------------------------------------------------------------------------
\* a get/post/put call is in progress or has just ended
InCall == client = "ready" /\ pc # "idle"

\* attempts of the retry loop started so far in this call
Attempts ==
    nSleep + (IF \/ pc \in {"check", "resend", "validate"}
                 \/ (pc = "done" /\ outcome.exc \notin {"ApiError_retries",
                                                        "TypeError"})
              THEN 1 ELSE 0)

\* the malformed-response errors of _response_good
ProtocolErrors == {"ApiError_http", "ApiError_json"}

\* a body that is not JSON, or a JSON scalar
Malformed(b) == b.kind \in {"nonjson", "regsize", "scalar"}

\* C1: a call all of whose responses are non-2xx (not 401, not the
\* register-size message) makes exactly `retries` attempts, sleeping after
\* each, and ends by raising the retry-exhaustion error; it never returns.
C1_Non2xxExhaustsRetries ==
    (pc = "done" /\ seen = {"non2xx"})
        => /\ outcome = Raise("ApiError_retries")
           /\ nReq = retries
           /\ nSleep = retries

\* C2 (as stated): over a whole get/post/put call obtain_token is invoked at
\* most once and the request is reissued at most once.
C2_OneRefreshPerCall ==
    InCall => (nLogin <= 1 /\ nReissue <= 1)

\* counters of one call: refreshes and reissues against attempts
RefreshCounts ==
    InCall => /\ nLogin <= Attempts
              /\ nReissue <= nLogin
              /\ nReq = Attempts + nReissue
              /\ (pc = "resend" => nLogin = nReissue + 1)
              /\ (pc = "validate" /\ respond.status = 401
                    => nReissue = nLogin /\ nReissue >= 1)

\* C2 (amended): in every attempt of the retry loop a 401 first response
\* makes exactly one obtain_token invocation, followed when it succeeds by
\* exactly one reissue whose response is validated without another token
\* check; over a call refreshes and reissues are bounded by the number of
\* attempts made, not by one.
C2_OneRefreshPerAttempt ==
    /\ []RefreshCounts
    /\ [][/\ (pc = "check" /\ respond.status = 401)
               => /\ nLogin' = nLogin + 1
                  /\ nReq' = nReq
                  /\ pc' \in {"resend", "done"}
                  /\ (pc' = "done" => outcome'.kind = "raise")
          /\ (pc = "check" /\ respond.status # 401)
               => (nLogin' = nLogin /\ pc' = "validate")
          /\ pc = "resend"
               => /\ nLogin' = nLogin
                  /\ nReissue' = nReissue + 1
                  /\ pc' = "validate"
          /\ pc = "validate"
               => (nLogin' = nLogin /\ nReq' = nReq)]_vars

\* two attempts of one call each refreshed the token and reissued
C2_Witness ==
    InCall /\ nLogin = 2 /\ nReissue = 2 /\ Attempts = 2

\* C3: every request of post, put or get-with-token carries the token that
\* is current in the credential store when the request is issued.
C3_RequestCarriesCurrentToken ==
    (InCall /\ lastReq.with_token /\ Truthy(lastReq.current))
        => lastReq.carried = lastReq.current

\* the responses of this call were all transient conditions or good
OnlyTransient == seen # {} /\ seen \subseteq {"s401", "err400", "good"}

\* C4 (as stated): when the responses of a call are only 401s, error-400
\* JSON bodies and good responses, an exception reaches the caller only
\* when the retry budget is exhausted.
C4_TransientAbsorbed ==
    (pc = "done" /\ OnlyTransient /\ outcome.kind = "raise")
        => (outcome.exc = "ApiError_retries" /\ left = 0)

\* C4 (amended): when the responses of a call are only 401s, error-400 JSON
\* bodies and good responses, the call returns the good response as soon as
\* it is validated, and an exception reaches the caller only when the retry
\* budget is exhausted or when the token renewal started by a 401 fails.
C4_TransientAbsorbedUnlessRenewalFails ==
    (pc = "done" /\ OnlyTransient)
        => /\ outcome.kind = "raise"
                => \/ (outcome.exc = "ApiError_retries" /\ left = 0)
                   \/ (/\ outcome.exc \in {"CredentialsError", "ValueError"}
                       /\ respond.status = 401
                       /\ nLogin = nReissue + 1)
           /\ (respond.status = 200 /\ Class(respond) = "good")
                => outcome = Return(respond.body)

\* a call that met a 401 and an error-400 body and then returned a good one
C4_Witness ==
    /\ pc = "done"
    /\ seen = {"s401", "err400", "good"}
    /\ outcome.kind = "return"
    /\ Class(respond) = "good"

\* C5: obtain_token failing during a call leaves the stored token and
\* userId as they were before the attempt.
C5_FailedRenewalKeepsCredential ==
    [][(pc = "check" /\ pc' = "done" /\ outcome'.kind = "raise")
          => data_credentials' = data_credentials]_vars

\* the responses of this call were all error-400 JSON bodies or good
Only400 == seen # {} /\ seen \subseteq {"err400", "good"}

\* C6: status 200 with a JSON dict whose error.status is 400 is a failed
\* attempt (budget decremented, sleep, retry); the call ends with the
\* retry-exhaustion error after `retries` such attempts, returns the first
\* good response otherwise, and never raises the malformed-response error.
C6_Error400IsRetried ==
    (InCall /\ Only400)
        => /\ outcome.exc \notin ProtocolErrors
           /\ nReissue = 0
           /\ (pc = "loop" => nSleep = nReq /\ left = retries - nReq)
           /\ (pc = "done" /\ outcome.kind = "raise"
                 => /\ outcome.exc = "ApiError_retries"
                    /\ seen = {"err400"}
                    /\ nReq = retries
                    /\ nSleep = retries)
           /\ (pc = "done" /\ outcome.kind = "return"
                 => /\ Class(respond) = "good"
                    /\ outcome.value = respond.body
                    /\ nSleep = nReq - 1)
           /\ (pc = "done" => outcome.kind \in {"raise", "return"})

\* a call that returned a good response after an error-400 attempt
C6_Witness ==
    /\ pc = "done"
    /\ seen = {"err400", "good"}
    /\ outcome.kind = "return"
    /\ nSleep >= 1

\* C7 (as stated): a response with a malformed body, whatever its HTTP
\* status, makes the call raise the malformed-response error at once,
\* without another request, a sleep or a decrement of the budget.
C7_MalformedRaisesAnyStatus ==
    [][(pc = "validate" /\ Malformed(respond.body))
          => /\ pc' = "done"
             /\ outcome'.exc \in ProtocolErrors
             /\ nReq' = nReq
             /\ nSleep' = nSleep
             /\ left' = left]_vars

\* C7 (amended): a response of HTTP status 200 with a malformed body makes
\* the call raise the malformed-response error at once, without another
\* request, a sleep or a decrement of the budget, whatever budget remains.
C7_MalformedRaisesOn200 ==
    [][(pc \in {"check", "validate"} /\ respond.status = 200
          /\ Malformed(respond.body))
          => /\ nReq' = nReq
             /\ nLogin' = nLogin
             /\ nSleep' = nSleep
             /\ left' = left
             /\ (pc = "check" => pc' = "validate" /\ respond' = respond)
             /\ (pc = "validate"
                   => /\ pc' = "done"
                      /\ outcome'.kind = "raise"
                      /\ outcome'.exc \in ProtocolErrors)]_vars

\* a malformed body of status 200 ended a call in its second attempt, with
\* budget remaining
C7_Witness ==
    /\ pc = "done"
    /\ respond.status = 200
    /\ Malformed(respond.body)
    /\ outcome.exc \in ProtocolErrors
    /\ nSleep = 1
    /\ left >= 1

\* C8: the 401 refresh-and-reissue does not touch the retry budget: the
\* budget is `retries` minus the attempts that failed, reissues do not
\* count, and a call whose only attempt is a 401 followed by a good
\* reissued response returns with the budget undecremented.
C8_ReissueNotCounted ==
    InCall
        => /\ (pc = "loop" => left = retries - (nReq - nReissue))
           /\ (pc \in {"check", "resend", "validate"}
                 => left = retries - (nReq - nReissue) + 1)
           /\ (pc = "done" /\ outcome.kind = "return" /\ seen = {"s401", "good"}
                 /\ nReq = 2 /\ Class(respond) = "good"
                 => left = retries /\ nSleep = 0)

\* with retries = 1, a 401 followed by a good reissued response returned
C8_Witness ==
    /\ pc = "done"
    /\ retries = 1
    /\ outcome.kind = "return"
    /\ seen = {"s401", "good"}
    /\ nReissue = 1
    /\ Class(respond) = "good"

\* ------------------------------------------------------------------------
\* Properties of run_experiment (checked under SpecRun)
\* ------------------------------------------------------------------------
\* run_experiment returned the submission's non-terminal status after the
\* polling loop ran out
PollTimedOut ==
    /\ rpc = "done"
    /\ run_outcome.kind = "return"
    /\ ~run_outcome.isNone
    /\ timeout > 0
    /\ run_respond.status \notin {"absent", "DONE", "ERROR"}
    /\ ~run_respond.error

\* C9: with timeout = N the poller makes up to N result fetches: it gives
\* up, returning the non-terminal status, only after N empty fetches.
C9_TimeoutCountsFetches ==
    PollTimedOut => polls = timeout

\* C10: an error raised by the transport client during a poll's result
\* fetch leaves run_experiment as that exception.
C10_FetchErrorPropagates ==
    (rpc = "done" /\ fetchRaised # "none")
        => (run_outcome.kind = "raise" /\ run_outcome.exc = fetchRaised)

\* ------------------------------------------------------------------------
\* Properties of the public operations (checked under SpecRun)
\* ------------------------------------------------------------------------
\* C11: during one public operation (all attempts of its calls and all its
\* poll fetches included) the login endpoint is called at most once.
C11_OneLoginPerOperation ==
    opLogins <= 1

\* C11 (amended): a public operation calls the login endpoint at most once
\* per attempt of its get/post/put calls, and only on a 401 answer to the
\* first request of an attempt; over the operation the handshakes are
\* bounded by the attempts, not by one.
C11_OneLoginPerAttempt ==
    /\ [](opLogins <= opAttempts)
    /\ [][opLogins' > opLogins
            => /\ pc = "check"
               /\ respond.status = 401
               /\ opAttempts' = opAttempts]_vars

\* run_experiment logged in twice: two attempts answered 401, the second
\* one in a poll's result fetch
C11_Witness ==
    /\ op = "run_experiment"
    /\ rpc = "fetch"
    /\ opLogins = 2
    /\ opAttempts = 2

\* the credentials error outcomes: CredentialsError raised, or the error
\* dict {"error": "Not credentials valid"} returned
CredentialsErrors ==
    {RunRaise("CredentialsError"), RunError("Not credentials valid")}

\* a request of the operation in progress is on its way or answered
Requesting == op # "none" /\ pc \in {"check", "resend", "validate"}

\* C12: an operation invoked with an absent or empty token and no
\* access_token override issues no request carrying access_token and ends
\* with a credentials error (exception or error value).
C12_AbsentTokenEndsInCredentialsError ==
    invoked.absent
        => /\ (Requesting => url = NoParam)
           /\ (rpc = "done" => run_outcome \in CredentialsErrors)

\* C12 (amended): an operation invoked with an absent or empty token and no
\* access_token override issues no request carrying access_token; unless
\* it is backend_status, which checks no credentials, it issues no request
\* at all and ends at once with a credentials error.
C12_ProtectedOperationsCheckToken ==
    invoked.absent
        => /\ (Requesting => url = NoParam)
           /\ (invoked.name # "backend_status"
                  => /\ rpc = "done"
                     /\ opAttempts = 0
                     /\ run_outcome \in CredentialsErrors)

\* set_user_group was invoked after a failed renewal had left the
\* credential without token, and returned the error dict
C12_Witness ==
    /\ invoked = [name |-> "set_user_group", absent |-> TRUE]
    /\ data_credentials.id = NoneV
    /\ rpc = "done"
    /\ run_outcome = RunError("Not credentials valid")

\* ------------------------------------------------------------------------
\* Properties of repeated get calls (checked under SpecGet)
\* ------------------------------------------------------------------------
\* C13: a get call answered as an earlier get call of this client was
\* answered returns the same JSON, whatever calls were made in between.
C13_RepeatedGetSameJson ==
    (/\ noted.set
     /\ pc = "done"
     /\ method = "get"
     /\ lastReq.with_token
     /\ nReq = 1
     /\ respond = noted.resp)
        => outcome = Return(noted.value)

\* ------------------------------------------------------------------------
\* Properties of the seed argument (checked under SpecRun)
\* ------------------------------------------------------------------------
\* run_experiment or run_job is the operation last invoked
RunOps == {"run_experiment", "run_job"}

\* a seed that is given and is longer than 10 characters or not numeric
InvalidSeed(sd) == sd.truthy /\ ~SeedValid(sd)

\* the outcomes that refuse the seed: the two errors raised by
\* run_experiment and the error dict returned by run_job
SeedErrors ==
    { RunRaise("ApiError_seed"), RunRaise("ApiError_seed_backend"),
      RunError("Not seed allowed") }

\* the outcomes that refuse an argument: the seed errors, and the refusal
\* of the backend name, which comes first
ParameterErrors == SeedErrors \cup {RunRaise("BadBackendError")}

\* C14: run_experiment and run_job refuse a seed longer than 10 characters
\* or not numeric with an invalid-parameter error, and never issue the
\* submission request for it.
C14_InvalidSeedNeverSubmitted ==
    (invoked.name \in RunOps /\ InvalidSeed(seed))
        => /\ rpc = "done"
           /\ run_outcome \in ParameterErrors

\* run_job returned its error dict for a seed of 11 digits, and
\* run_experiment raised for such a seed in another run
C14_Witness ==
    /\ invoked.name = "run_job"
    /\ seed = [truthy |-> TRUE, len |-> 11, isdigit |-> TRUE]
    /\ rpc = "done"
    /\ run_outcome = RunError("Not seed allowed")

\* C15: an invalid seed is refused before any HTTP request of the
\* operation, backend-list lookups included, whatever the backend name.
C15_InvalidSeedRejectedBeforeNetwork ==
    (/\ invoked.name \in RunOps
     /\ InvalidSeed(seed)
     /\ rpc = "done"
     /\ run_outcome \in SeedErrors)
        => opAttempts = 0

\* the names GET /Backends lists as available simulators
ListedSimulators ==
    {b.name : b \in {x \in ListedBackends : x.status = "on" /\ x.simulator}}

\* C16: run_experiment with a valid seed and a backend the service lists as
\* an available simulator accepts the seed: it is not refused.
C16_ListedSimulatorAcceptsSeed ==
    (/\ invoked.name = "run_experiment"
     /\ SeedValid(seed)
     /\ backend \in ListedSimulators
     /\ rpc = "done")
        => run_outcome \notin SeedErrors

\* ------------------------------------------------------------------------
\* Properties of what run_experiment returns (checked under SpecRun)
\* ------------------------------------------------------------------------
\* the submission returned a dict with status.id, id and codeId whose
\* status is neither DONE nor ERROR
NonTerminal(exe) ==
    /\ exe.kind = "dict"
    /\ exe.ids
    /\ exe.status \notin {"absent", "DONE", "ERROR"}

\* C17: whenever run_experiment returns normally, the returned value is a
\* dict with a 'status' entry that is not None.
C17_ReturnHasStatus ==
    (invoked.name = "run_experiment" /\ rpc = "done"
        /\ run_outcome.kind = "return")
        => /\ ~run_outcome.isNone
           /\ run_respond.status # "absent"

\* C18: when every result fetch of the polling loop was empty,
\* run_experiment raises nothing and returns the status of the submission
\* response, without 'result'.
C18_EmptyPollsReturnSubmissionStatus ==
    (/\ invoked.name = "run_experiment"
     /\ rpc = "done"
     /\ polls > 0
     /\ nPollSleep = polls)
        => /\ run_outcome = RunReturn
           /\ polls = PollRange(timeout)
           /\ NonTerminal(execution)
           /\ run_respond.status = execution.status
           /\ ~run_respond.result.present
           /\ ~run_respond.error

\* two result fetches were made, both empty, and run_experiment returned
C18_Witness ==
    /\ invoked.name = "run_experiment"
    /\ rpc = "done"
    /\ polls = 2
    /\ nPollSleep = 2
    /\ run_outcome = RunReturn
    /\ run_respond.status = "RUNNING"

\* C19: when the submission response reports DONE or ERROR, with or
\* without result payload, run_experiment makes no result fetch and no
\* poll sleep.
C19_TerminalSubmissionSkipsPoller ==
    (/\ invoked.name = "run_experiment"
     /\ execution.kind = "dict"
     /\ execution.status \in {"DONE", "ERROR"})
        => /\ rpc = "done"
           /\ polls = 0
           /\ nPollSleep = 0

\* the submission reported DONE without result payload while the timeout
\* allowed polling, and run_experiment ended without polling
C19_Witness ==
    /\ invoked.name = "run_experiment"
    /\ execution = DoneNoData
    /\ timeout = MaxTimeout
    /\ rpc = "done"
    /\ polls = 0

\* C20: with a zero timeout and a non-terminal submission status,
\* run_experiment makes no result fetch and no sleep and returns at once
\* with the submission's status.
C20_ZeroTimeoutSkipsPolling ==
    (/\ invoked.name = "run_experiment"
     /\ NonTerminal(execution)
     /\ timeout = 0)
        => /\ rpc = "done"
           /\ polls = 0
           /\ nPollSleep = 0
           /\ run_outcome = RunReturn
           /\ run_respond.status = execution.status
           /\ ~run_respond.result.present
           /\ ~run_respond.error

\* the submission reported RUNNING, the timeout was 0, and run_experiment
\* returned RUNNING
C20_Witness ==
    /\ invoked.name = "run_experiment"
    /\ execution = Running
    /\ timeout = 0
    /\ rpc = "done"
    /\ run_outcome = RunReturn
    /\ run_respond.status = "RUNNING"


\* ------------------------------------------------------------------------
\* Termination of run_experiment (checked under SpecPoll)
\* ------------------------------------------------------------------------
\* C21: run_experiment terminates whatever the server answers, and the
\* number of result fetches it makes never exceeds the timeout argument.
C21_PollerTerminates ==
    /\ [](invoked.name = "run_experiment" => polls <= timeout)
    /\ (op = "run_experiment") ~> (op = "none" /\ rpc = "done")

\* run_experiment ended after using the whole of its polling loop
C21_Witness ==
    /\ invoked.name = "run_experiment"
    /\ op = "none"
    /\ rpc = "done"
    /\ timeout = MaxTimeout
    /\ polls = MaxTimeout - 1
    /\ nPollSleep = polls


\* ------------------------------------------------------------------------
\* Backend names that do not resolve (checked under SpecRun)
\* ------------------------------------------------------------------------
\* the name is in no alias table of run_experiment and run_job and is not
\* the name of a listed backend whose status is 'on'
Unresolved(name) ==
    /\ name # NoneV
    /\ check_backend_experiment(name) = NoneV
    /\ check_backend_job(name) = NoneV
    /\ ~\E b \in ListedBackends : b.status = "on" /\ b.name = name

\* GET /Backends returned a list in which the name was not found
LookupMissed ==
    /\ op \in RunOps
    /\ rpc = "backends"
    /\ pc = "done"
    /\ outcome.kind = "return"
    /\ available_backends(outcome.value).exc = "none"
    /\ ~\E b \in available_backends(outcome.value).backends :
            b.name = backend

\* C22 (as stated): with valid credentials, run_experiment and run_job given
\* a backend name that does not resolve end by raising BadBackendError.
C22_UnresolvedRaisesBadBackend ==
    (/\ invoked.name \in RunOps
     /\ ~invoked.absent
     /\ Unresolved(backend)
     /\ rpc = "done")
        => run_outcome = RunRaise("BadBackendError")

\* C22 (amended): with valid credentials, a backend name that does not
\* resolve never leads to a submission: the operation ends by raising, with
\* BadBackendError whenever the backend listing was obtained and lacks the
\* name, and with the error of the listing request otherwise.
C22_UnresolvedNeverSubmitted ==
    /\ []((/\ invoked.name \in RunOps
           /\ ~invoked.absent
           /\ Unresolved(backend))
            => /\ rpc \in {"backends", "done"}
               /\ (rpc = "done" => run_outcome.kind = "raise"))
    /\ [][LookupMissed
            => /\ rpc' = "done"
               /\ op' = "none"
               /\ run_outcome' = RunRaise("BadBackendError")
               /\ opAttempts' = opAttempts]_vars

\* run_job was given a name that GET /Backends lists as switched off and
\* raised BadBackendError after the lookup
C22_Witness ==
    /\ invoked.name = "run_job"
    /\ ~invoked.absent
    /\ backend = "ibmqx5"
    /\ rpc = "done"
    /\ opAttempts = 1
    /\ run_outcome = RunRaise("BadBackendError")


\* ------------------------------------------------------------------------
\* Properties of construction (checked under Spec)
\* ------------------------------------------------------------------------
\* the constructor has just ended, by returning or by raising
Constructed == client = "new" /\ client' # "new"

\* C23: construction with an API token whose login answer carries no session
\* token raises CredentialsError and yields no client; construction with no
\* token, no injected access_token and no email/password raises the same
\* error without a login request.
C23_NoSessionTokenRaisesCredentialsError ==
    [][Constructed
         => /\ (Truthy(token_unique') /\ get_token(data_credentials') = NoneV)
                 => /\ client' = "failed"
                    /\ outcome' = Raise("CredentialsError")
            /\ (/\ ~Truthy(token_unique')
                /\ ~config'.email_password
                /\ get_token(data_credentials') = NoneV)
                 => /\ client' = "failed"
                    /\ outcome' = Raise("CredentialsError")
                    /\ nLogin' = 0]_vars

\* C24: whenever construction completes without raising,
\* check_credentials() on the new client returns True.
C24_ConstructedClientHasCredentials ==
    [][(Constructed /\ client' = "ready")
         => check_credentials(data_credentials')]_vars


\* ------------------------------------------------------------------------
\* State shared across operations (checked under SpecRun)
\* ------------------------------------------------------------------------
\* C25: once the client is constructed, no step of a get/post/put call or of
\* a public operation changes the retry policy, the configuration, the API
\* token or the result field of the transport client, and the credential
\* changes only in the token refresh of check_token and by the overrides
\* at the head of a public operation.
C25_OnlyCredentialIsMutable ==
    [][client = "ready"
         => /\ retries' = retries
            /\ config' = config
            /\ token_unique' = token_unique
            /\ result' = result
            /\ (data_credentials' # data_credentials
                  => \/ (pc = "check" /\ respond.status = 401)
                     \/ (op = "none" /\ invoked'.name # "none"
                           /\ opAttempts' = 0 /\ pc' \in {pc, "loop", "done"}
                           /\ pc \in {"idle", "done"}))]_vars

\* ------------------------------------------------------------------------
\* Results returned by run_experiment (checked under SpecRun)
\* ------------------------------------------------------------------------
\* the submission answered DONE with a result.data payload
DoneWithData(exe) ==
    /\ exe.kind = "dict"
    /\ exe.ids
    /\ exe.status = "DONE"
    /\ exe.data

\* C26: when the submission answers DONE with a result.data payload, the
\* returned result has 'measure', 'bloch' and 'extraInfo' equal to p,
\* valsxyz and additionalData of result.data, and lacks each key whose
\* field is absent.
C26_DoneResultCopiesData ==
    (/\ invoked.name = "run_experiment"
     /\ rpc = "done"
     /\ DoneWithData(execution))
        => /\ run_outcome = RunReturn
           /\ run_respond.result.present
           /\ run_respond.result.measure = execution.p
           /\ run_respond.result.bloch = execution.valsxyz
           /\ run_respond.result.extraInfo = execution.additionalData


\* ------------------------------------------------------------------------
\* The register-size message (checked under Spec)
\* ------------------------------------------------------------------------
\* the response being validated makes the call raise RegisterSizeError with
\* no further request, no sleep and the retry budget untouched
RaisesRegisterSize ==
    (pc = "validate" /\ Class(respond) = "regsize")
        => /\ pc' = "done"
           /\ outcome' = Raise("RegisterSizeError")
           /\ nReq' = nReq
           /\ nSleep' = nSleep
           /\ left' = left

\* C27 (as stated): every non-200 response whose text matches the
\* register-size message, first or reissued, makes the call raise
\* RegisterSizeError at once.
C27_RegisterSizeRaisesAtOnce ==
    [][/\ (pc = "check" /\ Class(respond) = "regsize")
             => /\ pc' = "validate"
                /\ respond' = respond
                /\ nLogin' = nLogin
       /\ RaisesRegisterSize]_vars

\* C27 (amended): a non-200 response whose text matches the register-size
\* message makes the call raise RegisterSizeError at once when it is the
\* first response of an attempt with a status other than 401 or the
\* response reissued after a refresh (whatever its status); a first
\* response with status 401 is answered by the token refresh, whatever its
\* text.
C27_ValidatedRegisterSizeRaises ==
    [][/\ (pc = "check" /\ Class(respond) = "regsize"
              /\ respond.status # 401)
             => /\ pc' = "validate"
                /\ respond' = respond
                /\ nLogin' = nLogin
       /\ (pc = "check" /\ Class(respond) = "regsize"
              /\ respond.status = 401)
             => /\ pc' \in {"resend", "done"}
                /\ nLogin' = nLogin + 1
                /\ (pc' = "done" => outcome'.exc # "RegisterSizeError")
       /\ RaisesRegisterSize]_vars

\* a call raised RegisterSizeError on the response reissued after a refresh
C27_Witness ==
    /\ pc = "done"
    /\ op = "none"
    /\ outcome = Raise("RegisterSizeError")
    /\ nReissue = 1
    /\ nReq = 2
    /\ nSleep = 0
    /\ Class(respond) = "regsize"


\* ------------------------------------------------------------------------
\* The value returned by get/post/put (checked under Spec)
\* ------------------------------------------------------------------------
\* C28: whenever a get/post/put call returns a value, the value is the
\* decoded JSON body (a list or a dict) of the last response of that call,
\* received with status 200; it is not None and not an earlier call's value.
C28_ReturnsBodyOfThisCall ==
    (pc = "done" /\ op = "none" /\ outcome.kind = "return")
        => /\ respond.status = 200
           /\ outcome.value = respond.body
           /\ outcome.value.kind \in {"list", "dict"}


\* ------------------------------------------------------------------------
\* Well-formed terminal answers of run_experiment (checked under SpecRun)
\* ------------------------------------------------------------------------
\* C29: a response returned by run_experiment with status DONE or ERROR has
\* no 'infoQueue' and no 'error' entry, and has a 'result' entry when the
\* status is DONE.
C29_TerminalAnswerWellFormed ==
    (/\ invoked.name = "run_experiment"
     /\ rpc = "done"
     /\ run_outcome = RunReturn
     /\ run_respond.status \in {"DONE", "ERROR"})
        => /\ ~run_respond.infoQueue
           /\ ~run_respond.error
           /\ (run_respond.status = "DONE" => run_respond.result.present)

====
